---- MODULE Spec2Model ----
(***************************************************************************)
(* Model of the SSH-config parser and mutator of gh-context                *)
(* (package ssh: ParseConfig, parseBlocks, FindHostBlock,                  *)
(* GetActiveIdentityFile, ActivateKey, AddIdentityFile, Save).             *)
(*                                                                         *)
(* A text is a sequence of symbols.  A symbol stands for a fixed piece of  *)
(* text: one character (" ", "\t", "\n", "#", "~", "/", ".", a letter) or  *)
(* a whole keyword ("Host", "IdentityFile" and a differently cased         *)
(* spelling of each, which the (?i) flag of the patterns accepts).         *)
(* Line numbers are 0-based as in the Go code; TLA+ sequences are 1-based, *)
(* so c.Lines[i] of the code is Lines[i + 1] here.                         *)
(***************************************************************************)
EXTENDS Integers, Sequences, FiniteSets, TLC

VARIABLES
    Lines,       \* ConfigFile.Lines
    Blocks,      \* ConfigFile.Blocks
    disk,        \* the file at ConfigFile.Path: [exists, data]
    bak,         \* the file at ConfigFile.Path + ".bak": [exists, data]
    pc,          \* position inside Save; "idle" when no call is running,
                 \* "failed" once Save has returned an error (the run ends)
    data,        \* Save's local variable data (bytes read for the backup)
    nOps,        \* number of calls made on the ConfigFile
    op,          \* the last call: its name, arguments and returned error
    prev         \* ConfigFile and files as they were when the last call began

vars == <<Lines, Blocks, disk, bak, pc, data, nOps, op, prev>>

-----------------------------------------------------------------------------
(* Bounds of the model *)

MaxLines == 2     \* lines of the file read by the first ParseConfig
MaxOps == 2       \* calls on the ConfigFile in one run (ParseConfig not counted)

-----------------------------------------------------------------------------
(* Symbols and character classes *)

SP == " "
TAB == "\t"
NL == "\n"
HASH == "#"
SLASH == "/"
DOT == "."
TILDE == "~"

\* \s of the regexp package is [\t\n\f\r ]; strings.TrimSpace strips the same
\* symbols of this alphabet.
WS == {SP, TAB, NL}

\* (?i)Host and (?i)IdentityFile
HostKw == {"Host", "host"}
IdKw == {"IdentityFile", "identityfile"}

Min(S) == CHOOSE x \in S : \A y \in S : x <= y
Max(S) == CHOOSE x \in S : \A y \in S : x >= y

\* s[from..] (1-based, may be empty)
Drop(s, from) == SubSeq(s, from, Len(s))

TrimSpace(s) ==
    LET keep == {i \in 1..Len(s) : s[i] \notin WS}
    IN  IF keep = {} THEN <<>> ELSE SubSeq(s, Min(keep), Max(keep))

\* strings.TrimLeft(line, " \t")
TrimLeftIndent(s) ==
    LET keep == {i \in 1..Len(s) : s[i] \notin {SP, TAB}}
    IN  IF keep = {} THEN <<>> ELSE Drop(s, Min(keep))

\* first position >= i that holds no \s symbol (Len(s) + 1 if none)
SkipWS(s, i) ==
    Min({j \in i..(Len(s) + 1) : j = Len(s) + 1 \/ s[j] \notin WS})

\* The common tail of both patterns, \s+(.+?)\s*$, matched from position p.
\* k symbols go to the greedy \s+, then m to the lazy .+? ("." matches any
\* symbol but "\n"), the rest to \s*.  The backtracking order of the regexp
\* package prefers the largest k and then the smallest m.
TailMatch(s, p) ==
    LET n == Len(s)
        fits(k, m) ==
            /\ \A i \in (p + k)..(p + k + m - 1) : s[i] # NL
            /\ \A i \in (p + k + m)..n : s[i] \in WS
        run == SkipWS(s, p) - p
        ks == {k \in 1..run : \E m \in 1..(n - p - k + 1) : fits(k, m)}
    IN  IF ks = {} THEN [ok |-> FALSE, text |-> <<>>]
        ELSE LET k == Max(ks)
                 m == Min({mm \in 1..(n - p - k + 1) : fits(k, mm)})
             IN  [ok |-> TRUE, text |-> SubSeq(s, p + k, p + k + m - 1)]

\* hostPattern.FindStringSubmatch(line): ok is match != nil, m1 is match[1]
hostPattern(line) ==
    LET i == SkipWS(line, 1)
    IN  IF i <= Len(line) /\ line[i] \in HostKw
        THEN LET t == TailMatch(line, i + 1)
             IN  [ok |-> t.ok, m1 |-> t.text]
        ELSE [ok |-> FALSE, m1 |-> <<>>]

\* identityFilePattern.FindStringSubmatch(line): hash is match[1] != "",
\* m3 is match[3]
identityFilePattern(line) ==
    LET i == SkipWS(line, 1)
        hash == i <= Len(line) /\ line[i] = HASH
        j == IF hash THEN SkipWS(line, i + 1) ELSE i
    IN  IF j <= Len(line) /\ line[j] \in IdKw
        THEN LET t == TailMatch(line, j + 1)
             IN  [ok |-> t.ok, hash |-> t.ok /\ hash, m3 |-> t.text]
        ELSE [ok |-> FALSE, hash |-> FALSE, m3 |-> <<>>]

-----------------------------------------------------------------------------
(* Block Parser *)

NewBlock(i, line, pattern) ==
    [StartLine |-> i, EndLine |-> 0, Hostname |-> TrimSpace(pattern),
     Lines |-> <<line>>, IdentityFiles |-> <<>>]

\* AddLine with the entry's index taken one too far
AddLine_IndexOff(block, line) ==
    LET m == identityFilePattern(line)
        ifl == [LineIndex |-> Len(block.Lines) + 1, IsCommented |-> m.hash,
                Path |-> TrimSpace(m.m3), FullLine |-> line]
    IN  [block EXCEPT
            !.Lines = Append(@, line),
            !.IdentityFiles = IF m.ok THEN Append(@, ifl) ELSE @]

\* The body of the scan for a line that is not a Host line, inside a block
AddLine(block, line) ==
    LET m == identityFilePattern(line)
        ifl == [LineIndex |-> Len(block.Lines), IsCommented |-> m.hash,
                Path |-> TrimSpace(m.m3), FullLine |-> line]
    IN  [block EXCEPT
            !.Lines = Append(@, line),
            !.IdentityFiles = IF m.ok THEN Append(@, ifl) ELSE @]

\* The loop of parseBlocks from line i (1-based) on.  currentBlock is <<>>
\* for the nil pointer and <<b>> for a pointer to b.
RECURSIVE parseLoop(_, _, _, _)
parseLoop(lines, i, blocks, currentBlock) ==
    IF i > Len(lines)
    THEN IF currentBlock # <<>>
         THEN Append(blocks, [currentBlock[1] EXCEPT !.EndLine = Len(lines)])
         ELSE blocks
    ELSE LET line == lines[i]
             h == hostPattern(line)
         IN  IF h.ok
             THEN parseLoop(lines, i + 1,
                      IF currentBlock # <<>>
                      THEN Append(blocks, [currentBlock[1] EXCEPT !.EndLine = i - 1])
                      ELSE blocks,
                      <<NewBlock(i - 1, line, h.m1)>>)
             ELSE IF currentBlock # <<>>
             THEN parseLoop(lines, i + 1, blocks, <<AddLine(currentBlock[1], line)>>)
             ELSE parseLoop(lines, i + 1, blocks, currentBlock)

parseBlocks(lines) == parseLoop(lines, 1, <<>>, <<>>)

-----------------------------------------------------------------------------
(* Path normalization *)

\* the path elements between the separators
RECURSIVE SplitSlash(_)
SplitSlash(p) ==
    LET at == {i \in 1..Len(p) : p[i] = SLASH}
    IN  IF at = {} THEN <<p>>
        ELSE <<SubSeq(p, 1, Min(at) - 1)>> \o SplitSlash(Drop(p, Min(at) + 1))

RECURSIVE JoinSlash(_)
JoinSlash(elems) ==
    IF elems = <<>> THEN <<>>
    ELSE IF Len(elems) = 1 THEN elems[1]
    ELSE elems[1] \o <<SLASH>> \o JoinSlash(Tail(elems))

\* filepath.Clean: drop empty and "." elements, let ".." remove the element
\* before it (or vanish at the root), no trailing separator, "" becomes "."
RECURSIVE CleanElems(_, _, _)
CleanElems(elems, out, rooted) ==
    IF elems = <<>> THEN out
    ELSE LET e == elems[1]
             rest == Tail(elems)
         IN  IF e = <<>> \/ e = <<DOT>> THEN CleanElems(rest, out, rooted)
             ELSE IF e = <<DOT, DOT>>
             THEN IF out # <<>> /\ out[Len(out)] # <<DOT, DOT>>
                  THEN CleanElems(rest, SubSeq(out, 1, Len(out) - 1), rooted)
                  ELSE IF rooted THEN CleanElems(rest, out, rooted)
                  ELSE CleanElems(rest, Append(out, e), rooted)
             ELSE CleanElems(rest, Append(out, e), rooted)

Clean(p) ==
    LET rooted == p # <<>> /\ p[1] = SLASH
        body == JoinSlash(CleanElems(SplitSlash(p), <<>>, rooted))
        out == IF rooted THEN <<SLASH>> \o body ELSE body
    IN  IF out = <<>> THEN <<DOT>> ELSE out

\* filepath.Join(home, rest): empty elements are ignored, the result is cleaned
Join(home, rest) ==
    IF rest = <<>> THEN Clean(home) ELSE Clean(home \o <<SLASH>> \o rest)

\* os.UserHomeDir() of the process; it does not fail in this model
UserHomeDir == <<SLASH, "h">>

normalizePath(p) ==
    IF Len(p) >= 2 /\ p[1] = TILDE /\ p[2] = SLASH
    THEN Clean(Join(UserHomeDir, Drop(p, 3)))
    ELSE Clean(p)

-----------------------------------------------------------------------------
(* Line rewriting helpers *)

\* the leading run of ' ' and '\t' that both rewriters keep
LeadingIndent(line) ==
    SubSeq(line, 1, Len(line) - Len(TrimLeftIndent(line)))

uncommentIdentityFile(line) ==
    LET m == identityFilePattern(line)
    IN  IF ~m.ok THEN line
        ELSE LeadingIndent(line) \o <<"IdentityFile", SP>> \o TrimSpace(m.m3)

commentIdentityFile(line) ==
    LET m == identityFilePattern(line)
    IN  IF ~m.ok THEN line
        ELSE IF m.hash THEN line
        ELSE LeadingIndent(line) \o <<HASH, SP, "IdentityFile", SP>> \o TrimSpace(m.m3)

DefaultIndent == <<SP, SP, SP, SP>>

\* detectIndent that never looks at the block
detectIndent_Default(lines) == DefaultIndent

detectIndent(lines) ==
    LET hit == {i \in 2..Len(lines) :
                    /\ TrimLeftIndent(lines[i]) # <<>>
                    /\ TrimLeftIndent(lines[i]) # lines[i]}
    IN  IF hit = {} THEN DefaultIndent
        ELSE LeadingIndent(lines[Min(hit)])

-----------------------------------------------------------------------------
(* Locator *)

\* FindHostBlock that keeps scanning after a match and returns the last one
FindHostBlock_Last(blocks, hostname) ==
    LET hit == {i \in 1..Len(blocks) : blocks[i].Hostname = hostname}
    IN  IF hit = {} THEN 0 ELSE Max(hit)

\* The index in blocks of the block FindHostBlock returns, 0 for nil
FindHostBlock(blocks, hostname) ==
    LET hit == {i \in 1..Len(blocks) : blocks[i].Hostname = hostname}
    IN  IF hit = {} THEN 0 ELSE Min(hit)

GetActiveIdentityFile(blocks, hostname) ==
    LET b == FindHostBlock(blocks, hostname)
    IN  IF b = 0 THEN <<>>
        ELSE LET ifs == blocks[b].IdentityFiles
                 act == {i \in 1..Len(ifs) : ~ifs[i].IsCommented}
             IN  IF act = {} THEN <<>> ELSE ifs[Min(act)].Path

-----------------------------------------------------------------------------
(* Activator *)

\* KeyFound that takes the key for found without looking
KeyFound_NoCheck(block, normalizedKeyPath) == TRUE

\* the loop of ActivateKey that looks for an entry of the block with the same
\* normalized path (found)
KeyFound(block, normalizedKeyPath) ==
    \E i \in 1..Len(block.IdentityFiles) :
        normalizePath(block.IdentityFiles[i].Path) = normalizedKeyPath

\* the loop of AddIdentityFile that returns early when the block holds an
\* entry with the same normalized path
AlreadyExists(block, normalizedKeyPath) ==
    \E i \in 1..Len(block.IdentityFiles) :
        normalizePath(block.IdentityFiles[i].Path) = normalizedKeyPath

GlobalLineIdx(block, ifl) == block.StartLine + ifl.LineIndex

\* the rewriting loop of ActivateKey from the i-th entry of the block on
RECURSIVE RewriteLoop(_, _, _, _)
RewriteLoop(lines, block, i, normalizedKeyPath) ==
    IF i > Len(block.IdentityFiles) THEN lines
    ELSE LET ifl == block.IdentityFiles[i]
             at == GlobalLineIdx(block, ifl) + 1
             originalLine == lines[at]
             newLine == IF normalizePath(ifl.Path) = normalizedKeyPath
                        THEN uncommentIdentityFile(originalLine)
                        ELSE commentIdentityFile(originalLine)
         IN  RewriteLoop([lines EXCEPT ![at] = newLine], block, i + 1,
                         normalizedKeyPath)

\* the line AddIdentityFile composes
NewLine(indent, keyPath, active) ==
    IF active THEN indent \o <<"IdentityFile", SP>> \o keyPath
    ELSE indent \o <<HASH, SP, "IdentityFile", SP>> \o keyPath

\* InsertIdx that counts from the top of the file, not from the block's start
InsertIdx_NoStart(block) ==
    IF Len(block.IdentityFiles) > 0
    THEN block.IdentityFiles[Len(block.IdentityFiles)].LineIndex + 1
    ELSE 1

\* 0-based insertion point of AddIdentityFile
InsertIdx(block) ==
    IF Len(block.IdentityFiles) > 0
    THEN block.StartLine + block.IdentityFiles[Len(block.IdentityFiles)].LineIndex + 1
    ELSE block.StartLine + 1

\* append(c.Lines[:insertIdx], append([]string{newLine}, c.Lines[insertIdx:]...)...)
InsertAt(lines, insertIdx, newLine) ==
    SubSeq(lines, 1, insertIdx) \o <<newLine>> \o Drop(lines, insertIdx + 1)

-----------------------------------------------------------------------------
(* Reader and Writer *)

\* bufio.ScanLines over the bytes of the file: a line ends at "\n"; a last
\* line without "\n" counts when it is not empty.  (The alphabet has no
\* "\r", so dropCR has nothing to drop.)
RECURSIVE ScanLines(_)
ScanLines(bytes) ==
    LET at == {i \in 1..Len(bytes) : bytes[i] = NL}
    IN  IF bytes = <<>> THEN <<>>
        ELSE IF at = {} THEN <<bytes>>
        ELSE <<SubSeq(bytes, 1, Min(at) - 1)>> \o ScanLines(Drop(bytes, Min(at) + 1))

\* strings.Join(lines, "\n")
RECURSIVE JoinLines(_)
JoinLines(lines) ==
    IF lines = <<>> THEN <<>>
    ELSE IF Len(lines) = 1 THEN lines[1]
    ELSE lines[1] \o <<NL>> \o JoinLines(Tail(lines))

\* the bytes Save writes to the target
Content(lines) ==
    LET content == JoinLines(lines)
        hasSuffix == content # <<>> /\ content[Len(content)] = NL
    IN  IF Len(lines) > 0 /\ ~hasSuffix THEN content \o <<NL>> ELSE content

\* a backup taken from the lines in memory
BackupData_InMemory == Content(Lines)

\* the bytes Save copies to the backup: what os.ReadFile(c.Path) returned
BackupData == disk.data

NoFile == [exists |-> FALSE, data |-> <<>>]
File(bytes) == [exists |-> TRUE, data |-> bytes]

-----------------------------------------------------------------------------
(* Inputs *)

HostW == <<"Host", SP, "w", SP>>
HostP == <<"host", TAB, "p">>
IdK == <<TAB, "IdentityFile", SP, TILDE, SLASH, "k">>
IdKc == <<SP, HASH, SP, "identityfile", SP, SLASH, "h", SLASH, "k">>
IdJ == <<SP, SP, "IdentityFile", TAB, "j", SP>>
IdE == <<"IdentityFile", SP, SP>>
Blank == <<>>
Note == <<SP, "x">>

LineSet == {HostW, HostP, IdK, IdKc, IdJ, IdE, Blank, Note}

\* a text file with the given lines, each ended by "\n"
RECURSIVE FileText(_)
FileText(lines) ==
    IF lines = <<>> THEN <<>> ELSE lines[1] \o <<NL>> \o FileText(Tail(lines))

Files == UNION {[1..n -> LineSet] : n \in 0..MaxLines}

Aliases == {<<"w">>}

KeyPaths == {<<TILDE, SLASH, "k">>, <<DOT, SLASH, "j">>, <<>>}

-----------------------------------------------------------------------------
(* The state machine *)

Call(name, hostname, keyPath, active, err, ret) ==
    [name |-> name, hostname |-> hostname, keyPath |-> keyPath,
     active |-> active, err |-> err, ret |-> ret,
     \* the call before this one was a Save that succeeded
     afterSave |-> op.name = "Save" /\ op.err = "nil",
     \* the call before this one was the same call with the same arguments
     again |-> op.name = name /\ op.hostname = hostname /\ op.keyPath = keyPath
               /\ op.active = active]

Before == [Lines |-> Lines, Blocks |-> Blocks, disk |-> disk, bak |-> bak]

\* ParseConfig(path) of the file as it is on disk
Parsed(file) ==
    IF file.exists THEN ScanLines(file.data) ELSE <<>>

Init ==
    /\ disk \in {NoFile} \cup {File(FileText(f)) : f \in Files}
    /\ bak = NoFile
    /\ Lines = Parsed(disk)
    /\ Blocks = parseBlocks(Lines)
    /\ pc = "idle"
    /\ data = <<>>
    /\ nOps = 0
    /\ op = [name |-> "ParseConfig", hostname |-> <<>>, keyPath |-> <<>>,
             active |-> FALSE, err |-> "nil", ret |-> <<>>, afterSave |-> FALSE,
             again |-> FALSE]
    /\ prev = [Lines |-> <<>>, Blocks |-> <<>>, disk |-> disk, bak |-> bak]

ParseConfig ==
    /\ pc = "idle"
    /\ Lines' = Parsed(disk)
    /\ Blocks' = parseBlocks(Lines')
    /\ op' = Call("ParseConfig", <<>>, <<>>, FALSE, "nil", <<>>)
    /\ prev' = Before
    /\ UNCHANGED <<disk, bak, pc, data, nOps>>

FindHostBlockCall(hostname) ==
    /\ pc = "idle" /\ nOps < MaxOps
    /\ nOps' = nOps + 1
    /\ op' = Call("FindHostBlock", hostname, <<>>, FALSE, "nil",
                  FindHostBlock(Blocks, hostname))
    /\ prev' = Before
    /\ UNCHANGED <<Lines, Blocks, disk, bak, pc, data>>

GetActiveIdentityFileCall(hostname) ==
    /\ pc = "idle" /\ nOps < MaxOps
    /\ nOps' = nOps + 1
    /\ op' = Call("GetActiveIdentityFile", hostname, <<>>, FALSE, "nil",
                  GetActiveIdentityFile(Blocks, hostname))
    /\ prev' = Before
    /\ UNCHANGED <<Lines, Blocks, disk, bak, pc, data>>

ActivateKey(hostname, keyPath) ==
    /\ pc = "idle" /\ nOps < MaxOps
    /\ nOps' = nOps + 1
    /\ prev' = Before
    /\ LET b == FindHostBlock(Blocks, hostname)
           normalizedKeyPath == normalizePath(keyPath)
       IN  IF b = 0
           THEN /\ op' = Call("ActivateKey", hostname, keyPath, FALSE, "NoBlock", <<>>)
                /\ UNCHANGED <<Lines, Blocks>>
           ELSE IF ~KeyFound(Blocks[b], normalizedKeyPath)
           THEN /\ op' = Call("ActivateKey", hostname, keyPath, FALSE, "NoKey", <<>>)
                /\ UNCHANGED <<Lines, Blocks>>
           ELSE /\ Lines' = RewriteLoop(Lines, Blocks[b], 1, normalizedKeyPath)
                /\ Blocks' = parseBlocks(Lines')
                /\ op' = Call("ActivateKey", hostname, keyPath, FALSE, "nil", <<>>)
    /\ UNCHANGED <<disk, bak, pc, data>>

AddIdentityFile(hostname, keyPath, active) ==
    /\ pc = "idle" /\ nOps < MaxOps
    /\ nOps' = nOps + 1
    /\ prev' = Before
    /\ LET b == FindHostBlock(Blocks, hostname)
           normalizedKeyPath == normalizePath(keyPath)
       IN  IF b = 0
           THEN /\ op' = Call("AddIdentityFile", hostname, keyPath, active, "NoBlock", <<>>)
                /\ UNCHANGED <<Lines, Blocks>>
           ELSE IF AlreadyExists(Blocks[b], normalizedKeyPath)
           THEN /\ op' = Call("AddIdentityFile", hostname, keyPath, active, "nil", <<>>)
                /\ UNCHANGED <<Lines, Blocks>>
           ELSE /\ Lines' = InsertAt(Lines, InsertIdx(Blocks[b]),
                                     NewLine(detectIndent(Blocks[b].Lines), keyPath, active))
                /\ Blocks' = parseBlocks(Lines')
                /\ op' = Call("AddIdentityFile", hostname, keyPath, active, "nil", <<>>)
    /\ UNCHANGED <<disk, bak, pc, data>>

\* Save is one step per file operation, each of which may fail and make Save
\* return its error.
\* Save up to the backup: os.Stat, then os.ReadFile when the target exists
SaveBegin ==
    /\ pc = "idle" /\ nOps < MaxOps
    /\ nOps' = nOps + 1
    /\ prev' = Before
    /\ \/ /\ disk.exists
          /\ data' = BackupData
          /\ pc' = "backup"
          /\ op' = Call("Save", <<>>, <<>>, FALSE, "running", <<>>)
       \/ /\ disk.exists
          /\ pc' = "failed"
          /\ op' = Call("Save", <<>>, <<>>, FALSE, "ReadFailed", <<>>)
          /\ UNCHANGED data
       \/ /\ ~disk.exists
          /\ pc' = "write"
          /\ op' = Call("Save", <<>>, <<>>, FALSE, "running", <<>>)
          /\ UNCHANGED data
    /\ UNCHANGED <<Lines, Blocks, disk, bak>>

\* os.WriteFile(backupPath, data, 0600); a failed write may have truncated
SaveBackup ==
    /\ pc = "backup"
    /\ \/ /\ bak' = File(data)
          /\ pc' = "write"
          /\ UNCHANGED op
       \/ /\ bak' \in {bak, File(<<>>)}
          /\ pc' = "failed"
          /\ op' = [op EXCEPT !.err = "BackupFailed"]
    /\ UNCHANGED <<Lines, Blocks, disk, data, nOps, prev>>

\* os.WriteFile(c.Path, content, 0600), first half: open with O_CREATE|O_TRUNC
SaveOpen ==
    /\ pc = "write"
    /\ \/ /\ disk' = File(<<>>)
          /\ pc' = "writing"
          /\ UNCHANGED op
       \/ /\ pc' = "failed"
          /\ op' = [op EXCEPT !.err = "WriteFailed"]
          /\ UNCHANGED disk
    /\ UNCHANGED <<Lines, Blocks, bak, data, nOps, prev>>

\* os.WriteFile(c.Path, content, 0600), second half: write the bytes; a
\* failed write leaves a proper prefix of them
SaveWrite ==
    /\ pc = "writing"
    /\ \/ /\ disk' = File(Content(Lines))
          /\ pc' = "idle"
          /\ op' = [op EXCEPT !.err = "nil"]
       \/ /\ \E n \in {0, Len(Content(Lines)) - 1} :
                 /\ n >= 0
                 /\ disk' = File(SubSeq(Content(Lines), 1, n))
          /\ pc' = "failed"
          /\ op' = [op EXCEPT !.err = "WriteFailed"]
    /\ UNCHANGED <<Lines, Blocks, bak, data, nOps, prev>>

Next ==
    \/ ParseConfig
    \/ \E h \in Aliases : FindHostBlockCall(h)
    \/ \E h \in Aliases : GetActiveIdentityFileCall(h)
    \/ \E h \in Aliases, k \in KeyPaths : ActivateKey(h, k)
    \/ \E h \in Aliases, k \in KeyPaths, a \in BOOLEAN : AddIdentityFile(h, k, a)
    \/ SaveBegin
    \/ SaveBackup
    \/ SaveOpen
    \/ SaveWrite

Spec == Init /\ [][Next]_vars

-----------------------------------------------------------------------------
(* Vocabulary of the properties *)

Succeeded(name) == pc = "idle" /\ op.name = name /\ op.err = "nil"

\* The block a call with this hostname targets, in the blocks as they were
\* before the call: the first one that declares exactly this pattern (0: none)
Target(hostname) ==
    LET hit == {i \in 1..Len(prev.Blocks) :
                    /\ prev.Blocks[i].Hostname = hostname
                    /\ \A j \in 1..(i - 1) : prev.Blocks[j].Hostname # hostname}
    IN  IF hit = {} THEN 0 ELSE CHOOSE i \in hit : TRUE

\* entries of a block that are not commented out
Uncommented(block) ==
    {i \in 1..Len(block.IdentityFiles) : ~block.IdentityFiles[i].IsCommented}

\* entries of a block whose path is normalization-equivalent to keyPath
SameKey(block, keyPath) ==
    {i \in 1..Len(block.IdentityFiles) :
        normalizePath(block.IdentityFiles[i].Path) = normalizePath(keyPath)}

-----------------------------------------------------------------------------
(* C1 *)

\* C1: after ActivateKey(alias, keyPath) returns success, exactly one entry of
\* the block found for alias is uncommented, its normalized path equals the
\* normalized keyPath, and GetActiveIdentityFile(alias) returns a path with
\* the same normalization.
C1_ActivationExclusivity ==
    Succeeded("ActivateKey") =>
        LET b == FindHostBlock(Blocks, op.hostname)
        IN  /\ b # 0
            /\ Cardinality(Uncommented(Blocks[b])) = 1
            /\ Uncommented(Blocks[b]) \subseteq SameKey(Blocks[b], op.keyPath)
            /\ normalizePath(GetActiveIdentityFile(Blocks, op.hostname))
                   = normalizePath(op.keyPath)

-----------------------------------------------------------------------------
(* C2 *)

\* C2: after any ActivateKey or AddIdentityFile call, successful or not, the
\* lines before the targeted block's StartLine and the lines from its EndLine
\* on (preamble, other blocks, a later block declaring the same pattern) are
\* what they were, in the same order; what changed lies behind the block's
\* Host line.
C2_Locality ==
    (pc = "idle" /\ op.name \in {"ActivateKey", "AddIdentityFile"}) =>
        LET b == Target(op.hostname)
        IN  IF b = 0 THEN Lines = prev.Lines
            ELSE LET start == prev.Blocks[b].StartLine
                     after == Len(prev.Lines) - prev.Blocks[b].EndLine
                 IN  /\ Len(Lines) >= Len(prev.Lines)
                     /\ SubSeq(Lines, 1, start + 1) = SubSeq(prev.Lines, 1, start + 1)
                     /\ Drop(Lines, Len(Lines) - after + 1)
                            = Drop(prev.Lines, Len(prev.Lines) - after + 1)

\* a call changed the block while a later block declares the same pattern
C2_Witness ==
    /\ pc = "idle" /\ op.name \in {"ActivateKey", "AddIdentityFile"}
    /\ Lines # prev.Lines
    /\ Target(op.hostname) # 0
    /\ \E j \in (Target(op.hostname) + 1)..Len(prev.Blocks) :
           prev.Blocks[j].Hostname = op.hostname

-----------------------------------------------------------------------------
(* C3 *)

\* C3: a second AddIdentityFile call with the same arguments leaves the line
\* sequence as the first call left it; and a call made when the block holds
\* an entry with the same normalized path succeeds and modifies no line.
C3_Idempotence ==
    (pc = "idle" /\ op.name = "AddIdentityFile") =>
        /\ op.again => Lines = prev.Lines
        /\ (Target(op.hostname) # 0
            /\ SameKey(prev.Blocks[Target(op.hostname)], op.keyPath) # {})
               => (op.err = "nil" /\ Lines = prev.Lines)

-----------------------------------------------------------------------------
(* C4 *)

\* C4: ParseConfig of the file a successful Save wrote yields the block
\* sequence the configuration had in memory before the Save.
C4_RoundTrip ==
    (pc = "idle" /\ op.name = "ParseConfig" /\ op.afterSave) =>
        Blocks = prev.Blocks

-----------------------------------------------------------------------------
(* C5 *)

\* C5: ActivateKey returns a NotFound error when no block's pattern equals the
\* alias or no entry of the block has the normalized path of keyPath,
\* AddIdentityFile when no block matches; with an error returned, lines and
\* blocks are what they were before the call.
C5_FailureUntouched ==
    (pc = "idle" /\ op.name \in {"ActivateKey", "AddIdentityFile"}) =>
        LET b == Target(op.hostname)
        IN  /\ b = 0 => op.err = "NoBlock"
            /\ (op.name = "ActivateKey" /\ b # 0
                /\ SameKey(prev.Blocks[b], op.keyPath) = {}) => op.err = "NoKey"
            /\ op.err # "nil" => (Lines = prev.Lines /\ Blocks = prev.Blocks)

\* ActivateKey failed for a key the block does not hold, in a block with an
\* active entry it would otherwise have commented out
C5_Witness ==
    /\ pc = "idle" /\ op.name = "ActivateKey" /\ op.err = "NoKey"
    /\ Uncommented(prev.Blocks[Target(op.hostname)]) # {}

-----------------------------------------------------------------------------
(* C6 *)

\* C6: when the target exists as Save starts, the bytes then on disk are in
\* <path>.bak, in place of any earlier backup, from before the write of the
\* target begins until Save returns, so also while the target is partially
\* written; the target is untouched until then.  When the target does not
\* exist, Save creates it and leaves the backup file as it was (none is
\* created).
C6_BackupOrdering ==
    op.name = "Save" =>
        /\ pc = "backup" => disk = prev.disk
        /\ (prev.disk.exists /\ (pc \in {"write", "writing"}
                                 \/ op.err \in {"WriteFailed", "nil"}))
               => bak = File(prev.disk.data)
        /\ ~prev.disk.exists => bak = prev.bak
        /\ Succeeded("Save") => disk.exists

\* the target is truncated and not yet written, the in-memory content differs
\* from the bytes that were on disk
C6_Witness ==
    /\ op.name = "Save" /\ pc = "writing"
    /\ prev.disk.exists
    /\ Content(Lines) # prev.disk.data
    /\ disk.data # Content(Lines)

-----------------------------------------------------------------------------
(* C7 *)

\* C7: the bytes a successful Save writes are the lines joined with "\n"
\* followed by exactly one more "\n", also for line sequences that end in
\* empty lines.  (The claim says the same of the empty sequence, for which
\* Save writes no byte at all; the formula leaves that case aside.)
C7_SaveFormat ==
    (Succeeded("Save") /\ Lines # <<>>) => disk.data = JoinLines(Lines) \o <<NL>>

-----------------------------------------------------------------------------
(* C8 *)

\* the last line of the block [start, end) that is an identity-file line, as
\* a 0-based line number; the Host line's number when there is none
LastEntryLine(lines, start, end) ==
    Max({start} \cup {i \in (start + 1)..(end - 1) : identityFilePattern(lines[i + 1]).ok})

\* the leading blanks and tabs of the first line after the Host line that has
\* some and is not blank; four spaces when there is none
ExpectedIndent(lines, start, end) ==
    LET lead(l) == Min({i \in 1..(Len(l) + 1) : i = Len(l) + 1 \/ l[i] \notin {SP, TAB}}) - 1
        hit == {i \in (start + 1)..(end - 1) :
                    lead(lines[i + 1]) > 0 /\ lead(lines[i + 1]) < Len(lines[i + 1])}
    IN  IF hit = {} THEN <<SP, SP, SP, SP>>
        ELSE SubSeq(lines[Min(hit) + 1], 1, lead(lines[Min(hit) + 1]))

\* C8: when the block for alias exists and holds no entry with the same
\* normalized path, AddIdentityFile inserts exactly one line, the detected
\* indentation followed by "IdentityFile <keyPath>" or "# IdentityFile
\* <keyPath>", right after the block's last entry line, or right after the
\* Host line when it has no entry; the other lines keep content and order.
C8_Insertion ==
    (pc = "idle" /\ op.name = "AddIdentityFile" /\ Target(op.hostname) # 0
     /\ SameKey(prev.Blocks[Target(op.hostname)], op.keyPath) = {}) =>
        LET blk == prev.Blocks[Target(op.hostname)]
            at == LastEntryLine(prev.Lines, blk.StartLine, blk.EndLine) + 1
            new == ExpectedIndent(prev.Lines, blk.StartLine, blk.EndLine)
                       \o (IF op.active THEN <<>> ELSE <<HASH, SP>>)
                       \o <<"IdentityFile", SP>> \o op.keyPath
        IN  /\ op.err = "nil"
            /\ Len(Lines) = Len(prev.Lines) + 1
            /\ Lines[at + 1] = new
            /\ \A i \in 1..at : Lines[i] = prev.Lines[i]
            /\ \A i \in (at + 1)..Len(prev.Lines) : Lines[i + 1] = prev.Lines[i]

\* a line was inserted behind an entry and before another line of the block,
\* with an indentation that is not the default
C8_Witness ==
    /\ pc = "idle" /\ op.name = "AddIdentityFile" /\ Lines # prev.Lines
    /\ LET blk == prev.Blocks[Target(op.hostname)]
           at == LastEntryLine(prev.Lines, blk.StartLine, blk.EndLine) + 1
       IN  /\ at > blk.StartLine + 1
           /\ at < blk.EndLine
           /\ ExpectedIndent(prev.Lines, blk.StartLine, blk.EndLine) # <<SP, SP, SP, SP>>

-----------------------------------------------------------------------------
(* C9 *)

\* C9: FindHostBlock(alias) returns the first block in file order whose
\* trimmed declared pattern is exactly alias, or none; GetActiveIdentityFile
\* (alias) returns the path of that block's first entry that is not commented
\* out, and empty when it has none, when no block matches, and whenever the
\* lines hold no Host line.
C9_Locator ==
    /\ (pc = "idle" /\ op.name = "FindHostBlock") =>
           /\ op.ret = Target(op.hostname)
           /\ op.ret # 0 =>
                  TrimSpace(hostPattern(Lines[Blocks[op.ret].StartLine + 1]).m1)
                      = op.hostname
    /\ (pc = "idle" /\ op.name = "GetActiveIdentityFile") =>
           LET b == Target(op.hostname)
           IN  IF b = 0 \/ Uncommented(Blocks[b]) = {}
               THEN op.ret = <<>>
               ELSE LET first == CHOOSE i \in Uncommented(Blocks[b]) :
                                     \A j \in Uncommented(Blocks[b]) : i <= j
                    IN  op.ret = Blocks[b].IdentityFiles[first].Path
    /\ (pc = "idle" /\ op.name = "GetActiveIdentityFile"
        /\ \A i \in 1..Len(Lines) : ~hostPattern(Lines[i]).ok) => op.ret = <<>>

\* the active path was found behind a commented entry
C9_Witness ==
    /\ pc = "idle" /\ op.name = "GetActiveIdentityFile" /\ op.ret # <<>>
    /\ Blocks[Target(op.hostname)].IdentityFiles[1].IsCommented

-----------------------------------------------------------------------------
(* C10 *)

\* C10: in every reachable state the block sequence is what the Block Parser
\* produces from the current lines, and the blocks are consecutive half-open
\* ranges: each starts at a Host line, holds EndLine - StartLine lines, ends
\* where the next begins, the last at the line count, and each entry's index
\* addresses the line that is its raw line.
C10_DerivedStructure ==
    /\ Blocks = parseBlocks(Lines)
    /\ \A i \in 1..Len(Blocks) :
           LET b == Blocks[i]
           IN  /\ b.StartLine >= 0 /\ b.StartLine < b.EndLine
               /\ hostPattern(Lines[b.StartLine + 1]).ok
               /\ b.Lines = SubSeq(Lines, b.StartLine + 1, b.EndLine)
               /\ Len(b.Lines) = b.EndLine - b.StartLine
               /\ b.EndLine = IF i < Len(Blocks) THEN Blocks[i + 1].StartLine
                              ELSE Len(Lines)
               /\ \A e \in 1..Len(b.IdentityFiles) :
                      /\ b.IdentityFiles[e].LineIndex \in 1..(Len(b.Lines) - 1)
                      /\ Lines[b.StartLine + b.IdentityFiles[e].LineIndex + 1]
                             = b.IdentityFiles[e].FullLine

\* a successful ActivateKey changed lines of a block that is not the first
C10_Witness ==
    /\ Succeeded("ActivateKey") /\ Lines # prev.Lines
    /\ Len(Blocks) > 1
    /\ Target(op.hostname) > 1

-----------------------------------------------------------------------------
(* C11 *)

\* the leading blanks and tabs of a line
Indentation(line) ==
    SubSeq(line, 1,
           Min({i \in 1..(Len(line) + 1) :
                    i = Len(line) + 1 \/ line[i] \notin {SP, TAB}}) - 1)

\* C11: after a successful ActivateKey the block has as many lines and as
\* many entries as before, each entry declares the path text it declared
\* before, the line of an entry with the key's normalized path is
\* "<its indentation>IdentityFile <declared path>", the line of any other
\* entry that was uncommented is "<its indentation># IdentityFile <declared
\* path>", an entry that was commented keeps its line, and so does every line
\* that is no entry of the block.
C11_RewriteRule ==
    Succeeded("ActivateKey") =>
        LET b == Target(op.hostname)
            old == prev.Blocks[b]
            new == Blocks[b]
            lineOf(e) == old.StartLine + old.IdentityFiles[e].LineIndex + 1
            entryLines == {lineOf(e) : e \in 1..Len(old.IdentityFiles)}
        IN  /\ Len(Lines) = Len(prev.Lines)
            /\ \A i \in (1..Len(Lines)) \ entryLines : Lines[i] = prev.Lines[i]
            /\ \A e \in 1..Len(old.IdentityFiles) :
                   LET was == prev.Lines[lineOf(e)]
                       path == old.IdentityFiles[e].Path
                   IN  Lines[lineOf(e)] =
                           IF e \in SameKey(old, op.keyPath)
                           THEN Indentation(was) \o <<"IdentityFile", SP>> \o path
                           ELSE IF ~old.IdentityFiles[e].IsCommented
                           THEN Indentation(was) \o <<HASH, SP, "IdentityFile", SP>> \o path
                           ELSE was
            /\ Len(new.IdentityFiles) = Len(old.IdentityFiles)
            /\ \A e \in 1..Len(old.IdentityFiles) :
                   new.IdentityFiles[e].Path = old.IdentityFiles[e].Path

\* the rewriting part of C11 alone: lines, and the lines of the entries
C11_LinesOnly ==
    Succeeded("ActivateKey") =>
        LET old == prev.Blocks[Target(op.hostname)]
            lineOf(e) == old.StartLine + old.IdentityFiles[e].LineIndex + 1
            entryLines == {lineOf(e) : e \in 1..Len(old.IdentityFiles)}
        IN  /\ Len(Lines) = Len(prev.Lines)
            /\ \A i \in (1..Len(Lines)) \ entryLines : Lines[i] = prev.Lines[i]
            /\ \A e \in 1..Len(old.IdentityFiles) :
                   LET was == prev.Lines[lineOf(e)]
                       path == old.IdentityFiles[e].Path
                   IN  Lines[lineOf(e)] =
                           IF e \in SameKey(old, op.keyPath)
                           THEN Indentation(was) \o <<"IdentityFile", SP>> \o path
                           ELSE IF ~old.IdentityFiles[e].IsCommented
                           THEN Indentation(was) \o <<HASH, SP, "IdentityFile", SP>> \o path
                           ELSE was

====
